---- MODULE Spec2Model ----
(***************************************************************************)
(* LSMTool: the makesourcedb codec (lsmtool/tableio.py) and the merge of   *)
(* two sky models (lsmtool/operations/concatenate.py).                     *)
(*                                                                         *)
(* Text is modelled at the level of lexemes.  A Python str is a sequence   *)
(* of lexemes [k, v]: k is the lexeme's text for punctuation and words,    *)
(* "f" for a float literal (v = its value in tenths), "i" for an integer   *)
(* literal (v = its value) and "nz" for the literal "-0".  Floats are      *)
(* integers counting tenths, angles are integers counting 0.1 arcsec.      *)
(***************************************************************************)
EXTENDS Integers, Sequences, FiniteSets, TLC

L(s) == [k |-> s, v |-> 0]
F(n) == [k |-> "f", v |-> n]
I(n) == [k |-> "i", v |-> n]
NegZero == [k |-> "nz", v |-> 0]

None == [t |-> "none", l |-> <<>>]
NA == [t |-> "str", l |-> <<>>]
Num(n) == [t |-> "num", l |-> <<n>>]
List(s) == [t |-> "list", l |-> s]
Pos(ra, dec) == [t |-> "pos", l |-> <<ra, dec>>]

Range(f) == {f[x] : x \in DOMAIN f}
Max(a, b) == IF a > b THEN a ELSE b
Abs(a) == IF a < 0 THEN -a ELSE a

(***************************************************************************)
(* Python str methods, on lexeme sequences.                                *)
(***************************************************************************)
Has(s, k) == \E i \in 1..Len(s) : s[i].k = k

IndexOf(s, k) ==
    IF Has(s, k)
    THEN CHOOSE i \in 1..Len(s) : s[i].k = k /\ \A j \in 1..(i - 1) : s[j].k # k
    ELSE 0

LastIndexOf(s, k) ==
    IF Has(s, k)
    THEN CHOOSE i \in 1..Len(s) : s[i].k = k /\ \A j \in (i + 1)..Len(s) : s[j].k # k
    ELSE 0

RECURSIVE Split(_, _)
Split(s, sep) ==
    LET i == IndexOf(s, sep)
    IN  IF i = 0 THEN <<s>>
        ELSE <<SubSeq(s, 1, i - 1)>> \o Split(SubSeq(s, i + 1, Len(s)), sep)

RECURSIVE Join(_, _)
Join(parts, sep) ==
    IF Len(parts) = 0 THEN <<>>
    ELSE IF Len(parts) = 1 THEN parts[1]
    ELSE parts[1] \o sep \o Join(Tail(parts), sep)

RECURSIVE LStrip(_, _)
LStrip(s, chars) ==
    IF Len(s) > 0 /\ s[1].k \in chars THEN LStrip(Tail(s), chars) ELSE s

RECURSIVE RStrip(_, _)
RStrip(s, chars) ==
    IF Len(s) > 0 /\ s[Len(s)].k \in chars
    THEN RStrip(SubSeq(s, 1, Len(s) - 1), chars) ELSE s

Strip(s, chars) == RStrip(LStrip(s, chars), chars)

WhiteSpace == {" ", "\n"}

\* str.replace(old, new) for one-lexeme old and new
ReplaceAll(s, old, new) ==
    [i \in 1..Len(s) |-> IF s[i].k = old THEN L(new) ELSE s[i]]

\* str.replace(old, new, count) for one-lexeme old and new
ReplaceFirst(s, old, new, count) ==
    [i \in 1..Len(s) |->
        IF s[i].k = old /\ Cardinality({j \in 1..(i - 1) : s[j].k = old}) < count
        THEN L(new) ELSE s[i]]

\* float(s): the value in tenths, or a ValueError
Float(s) ==
    LET w == Strip(s, WhiteSpace)
    IN  IF Len(w) = 1 /\ w[1].k = "f" THEN [ok |-> TRUE, val |-> w[1].v]
        ELSE IF Len(w) = 1 /\ w[1].k = "i" THEN [ok |-> TRUE, val |-> 10 * w[1].v]
        ELSE IF Len(w) = 1 /\ w[1].k = "nz" THEN [ok |-> TRUE, val |-> 0]
        ELSE [ok |-> FALSE, val |-> 0]

\* str(x) of a float x
StrFloat(x) == <<F(x)>>

RECURSIVE StrList(_)
\* str(l) of a list of floats l, without the brackets
StrList(l) ==
    IF Len(l) = 0 THEN <<>>
    ELSE IF Len(l) = 1 THEN StrFloat(l[1])
    ELSE StrFloat(l[1]) \o <<L(","), L(" ")>> \o StrList(Tail(l))

(***************************************************************************)
(* The column dictionaries, tableio.py lines 36-61.                        *)
(***************************************************************************)
allowedColumnNames ==
    [c \in {"name", "type", "patch", "ra", "dec", "i", "q", "u", "v",
            "majoraxis", "minoraxis", "orientation", "ishapelet", "qshapelet",
            "ushapelet", "vshapelet", "category", "rotationmeasure",
            "polarizationangle", "polarizedfraction", "referencewavelength",
            "referencefrequency", "spectralindex"} |->
        CASE c = "name" -> "Name" [] c = "type" -> "Type" [] c = "patch" -> "Patch"
          [] c = "ra" -> "Ra" [] c = "dec" -> "Dec" [] c = "i" -> "I"
          [] c = "q" -> "Q" [] c = "u" -> "U" [] c = "v" -> "V"
          [] c = "majoraxis" -> "MajorAxis" [] c = "minoraxis" -> "MinorAxis"
          [] c = "orientation" -> "Orientation" [] c = "ishapelet" -> "IShapelet"
          [] c = "qshapelet" -> "QShapelet" [] c = "ushapelet" -> "UShapelet"
          [] c = "vshapelet" -> "VShapelet" [] c = "category" -> "Category"
          [] c = "rotationmeasure" -> "RotationMeasure"
          [] c = "polarizationangle" -> "PolarizationAngle"
          [] c = "polarizedfraction" -> "PolarizedFraction"
          [] c = "referencewavelength" -> "ReferenceWavelength"
          [] c = "referencefrequency" -> "ReferenceFrequency"
          [] c = "spectralindex" -> "SpectralIndex"]

\* allowedColumnDefaults without its 'spectralindex' entry, which is the
\* mutable list held in the variable acd
allowedColumnDefaults(c) ==
    IF c \in {"name", "type", "patch", "ra", "dec", "ishapelet", "qshapelet",
              "ushapelet", "vshapelet", "referencewavelength"} THEN NA
    ELSE IF c = "category" THEN Num(20)
    ELSE Num(0)

\* str.lower() of one lexeme
LowerLex(x) ==
    IF x.k = "FORMAT" THEN L("format")
    ELSE IF \E c \in DOMAIN allowedColumnNames : allowedColumnNames[c] = x.k
    THEN L(CHOOSE c \in DOMAIN allowedColumnNames : allowedColumnNames[c] = x.k)
    ELSE x

Lower(s) == [i \in 1..Len(s) |-> LowerLex(s[i])]

(***************************************************************************)
(* skyModelReader, the format line: tableio.py lines 90-184.               *)
(***************************************************************************)
\* lines 91-95: the first line with 'format' in it, or <<>> when there is none
RECURSIVE FindFormatLine(_)
FindFormatLine(lines) ==
    IF Len(lines) = 0 THEN [found |-> FALSE, line |-> <<>>]
    ELSE IF Has(Lower(lines[1]), "format") THEN [found |-> TRUE, line |-> lines[1]]
    ELSE FindFormatLine(Tail(lines))

FormatPrefix == <<L("FORMAT"), L(" "), L("="), L(" ")>>

\* lines 99-108
NormalizeFormat(line) ==
    LET s  == Strip(Strip(line, WhiteSpace), {"#", " "})
        lo == Lower(s)
        ps == Split(s, "=")
    IN  IF Len(lo) > 0 /\ lo[Len(lo)].k = "format"
        THEN [ok |-> TRUE,
              s  |-> FormatPrefix \o
                     Strip(Join(SubSeq(ps, 1, Len(ps) - 1), <<L("=")>>),
                           {"#", " ", "(", ")"})]
        ELSE IF Len(lo) > 0 /\ lo[1].k = "format"
        THEN [ok |-> TRUE,
              s  |-> FormatPrefix \o
                     Strip(Join(Tail(ps), <<L("=")>>), {"#", " ", "(", ")"})]
        ELSE [ok |-> FALSE, s |-> <<>>]

\* lines 124-130: the last token that opens a list, the last that closes one
LastWhere(colNames, P(_)) ==
    IF \E i \in 1..Len(colNames) : P(colNames[i])
    THEN CHOOSE i \in 1..Len(colNames) :
            P(colNames[i]) /\ \A j \in (i + 1)..Len(colNames) : ~P(colNames[j])
    ELSE 0

IsStart(cn) == Has(cn, "[") /\ ~Has(cn, "]")
IsEnd(cn) == Has(cn, "]") /\ ~Has(cn, "[")

\* list.index(x): the first position of x, 0 when absent (a ValueError)
ListIndex(list, x) ==
    IF \E i \in 1..Len(list) : list[i] = x
    THEN CHOOSE i \in 1..Len(list) : list[i] = x /\ \A j \in 1..(i - 1) : list[j] # x
    ELSE 0

\* lines 134-148, the loop: positions are 1-based here
RECURSIVE FixLoop(_, _, _, _, _, _)
FixLoop(colNames, indx1, indx2, i, fixed, toJoin) ==
    IF i > Len(colNames) THEN fixed
    ELSE LET cn == colNames[i]
         IN  IF i < indx1
             THEN FixLoop(colNames, indx1, indx2, i + 1, Append(fixed, cn), toJoin)
             ELSE IF i >= indx1 /\ i <= indx2
             THEN LET tj == Append(toJoin, cn)
                  IN  FixLoop(colNames, indx1, indx2, i + 1,
                              IF i = Len(colNames)
                              THEN Append(fixed, Join(tj, <<L(",")>>)) ELSE fixed,
                              tj)
             ELSE IF i = indx2 + 1
             THEN FixLoop(colNames, indx1, indx2, i + 1,
                          Append(Append(fixed, Join(toJoin, <<L(",")>>)), cn), toJoin)
             ELSE FixLoop(colNames, indx1, indx2, i + 1, Append(fixed, cn), toJoin)

\* lines 120-149: the column tokens of the format string
FixColNames(formatString) ==
    LET fix(colNames, s, e) ==
            IF s = 0 THEN [ok |-> TRUE, colNames |-> colNames]
            ELSE IF e = 0 THEN [ok |-> FALSE, colNames |-> <<>>]
            ELSE [ok |-> TRUE,
                  colNames |-> FixLoop(colNames, ListIndex(colNames, colNames[s]),
                                       ListIndex(colNames, colNames[e]), 1, <<>>, <<>>)]
        scan(colNames) ==
            fix(colNames, LastWhere(colNames, IsStart), LastWhere(colNames, IsEnd))
    IN  scan(Split(formatString, ","))

\* lines 162-165: the floats of a list default, None on a ValueError
RECURSIVE FloatList(_)
FloatList(parts) ==
    IF Len(parts) = 0 THEN List(<<>>)
    ELSE LET cons(x, r) == IF x.ok /\ r.t = "list" THEN List(<<x.val>> \o r.l) ELSE None
         IN  cons(Float(parts[1]), FloatList(Tail(parts)))

\* lines 156-171: the lower-case name and the default of one column token
ColumnToken(cn) ==
    LET token(parts) ==
            [colName |-> Lower(Strip(parts[1], WhiteSpace)),
             defaultVal |->
                IF Len(parts) = 2
                THEN IF Has(parts[2], "[")
                     THEN FloatList(Split(Strip(parts[2], {"'", "[", "]"}), ","))
                     ELSE LET num(x) == IF x.ok THEN Num(x.val) ELSE None
                          IN  num(Float(Strip(parts[2], {"'"})))
                ELSE None]
    IN  token(Split(cn, "="))

RECURSIVE ColumnTokens(_)
\* line 155: the loop over the column tokens
ColumnTokens(colNames) ==
    IF Len(colNames) = 0 THEN <<>>
    ELSE <<ColumnToken(colNames[1])>> \o ColumnTokens(Tail(colNames))

BadColumns == [ok |-> FALSE, colNames |-> <<>>, explicit |-> {}, meta |-> <<>>]

\* lines 173-184: names, explicit defaults and the meta dictionary of the header
CheckColumns(toks) ==
    LET good(i) == /\ Len(toks[i].colName) = 1
                   /\ toks[i].colName[1].k \in DOMAIN allowedColumnNames
        name(i) == allowedColumnNames[toks[i].colName[1].k]
        explicit == {i \in 1..Len(toks) : toks[i].defaultVal # None}
    IN  IF \E i \in 1..Len(toks) : ~good(i) THEN BadColumns
        ELSE [ok |-> TRUE,
              colNames |-> [i \in 1..Len(toks) |-> name(i)],
              explicit |-> explicit,
              \* a later column of the same name overwrites an earlier one
              meta |-> [c \in {name(i) : i \in explicit} |->
                          toks[CHOOSE i \in explicit :
                                  /\ name(i) = c
                                  /\ \A j \in explicit : name(j) = c => j <= i].defaultVal]]

\* lines 152-184
ParseColumns(colNames0) ==
    LET first == Split(colNames0[1], "=")
    IN  IF Len(first) < 2 THEN BadColumns
        ELSE CheckColumns(ColumnTokens([colNames0 EXCEPT ![1] = first[2]]))

BadHeader ==
    [ok |-> FALSE, hasPatches |-> FALSE, colNames |-> <<>>, explicit |-> {},
     meta |-> <<>>]

\* lines 90-184
ParseHeader(lines) ==
    LET withColumns(hasPatches, pc) ==
            IF ~pc.ok THEN BadHeader
            ELSE [ok |-> TRUE, hasPatches |-> hasPatches, colNames |-> pc.colNames,
                  explicit |-> pc.explicit, meta |-> pc.meta]
        withTokens(formatString, fx) ==
            IF ~fx.ok THEN BadHeader
            ELSE withColumns(Has(formatString, "Patch"), ParseColumns(fx.colNames))
        withFormat(nf) ==
            IF ~nf.ok \/ ~Has(nf.s, ",") THEN BadHeader
            ELSE withTokens(nf.s, FixColNames(nf.s))
        withLine(fl) ==
            IF ~fl.found THEN BadHeader ELSE withFormat(NormalizeFormat(fl.line))
    IN  withLine(FindFormatLine(lines))

(***************************************************************************)
(* RA2Angle and Dec2Angle on one makesourcedb string: tableio.py lines     *)
(* 310-374.  The result counts 0.1 arcsec; ok = FALSE is the Exception.    *)
(***************************************************************************)
\* lines 330-333
RA2Angle(rasex) ==
    LET p == Split(rasex, ":")
        f(i) == Float(p[i])
    IN  IF Len(p) >= 3 /\ f(1).ok /\ f(2).ok /\ f(3).ok
        THEN [ok |-> TRUE, val |-> (f(1).val * 3600 + f(2).val * 60 + f(3).val) * 15]
        ELSE [ok |-> FALSE, val |-> 0]

\* lines 363-367
Dec2Angle(decstr) ==
    LET DecSex == ReplaceFirst(decstr, ".", ":", 2)
        p == Split(DecSex, ":")
        f(i) == Float(p[i])
    IN  IF Len(p) >= 3 /\ f(1).ok /\ f(2).ok /\ f(3).ok
        THEN [ok |-> TRUE, val |-> f(1).val * 3600 + f(2).val * 60 + f(3).val]
        ELSE [ok |-> FALSE, val |-> 0]

\* the declination strings Dec2Angle is called on: degrees, minutes and
\* whole seconds separated by dots.  The integer lexeme I(d) is d written
\* with or without a leading '+'; a leading '-' gives I(-d), or -0 for d = 0.
MaxDeg == 4
MaxMin == 4
MaxSec == 4
DecStr(sign, d, m, s) ==
    <<IF sign = "+" THEN I(d) ELSE IF d = 0 THEN NegZero ELSE I(0 - d),
      L("."), I(m), L("."), I(s)>>
\* a list of two strings that differ in their sign, or of one malformed string
DecLists ==
    {<<DecStr("+", d, m, s), DecStr("-", d, m, s)>> :
        d \in 0..MaxDeg, m \in 0..MaxMin, s \in 0..MaxSec}
    \cup {<<DecStr("+", d, m, 0), <<I(d), L("."), I(m)>>>> : d \in 0..MaxDeg, m \in 0..MaxMin}

(***************************************************************************)
(* skyModelReader, the data lines: tableio.py lines 186-221.               *)
(***************************************************************************)
\* line 192
IsSkipped(line) == Len(line) > 0 /\ line[1].k \in {"FORMAT", "format", "#"}

\* lines 197-204: re.search('\[.*\]') runs from the first '[' to the last ']'
RewriteBrackets(line0) ==
    LET line == Strip(line0, {"\n"})
        a == IndexOf(line, "[")
        e == LastIndexOf(line, "]")
    IN  IF a = 0 \/ e < a THEN line
        ELSE LET c0 == Strip(SubSeq(line, a, e), {"[", "]"})
                 c  == IF Has(c0, ",") THEN ReplaceAll(c0, ",", ";") ELSE c0
             IN  SubSeq(line, 1, a - 1) \o c \o SubSeq(line, e + 1, Len(line))

\* the text of a one-word field: names, types and patch names are single words
TextOf(field) ==
    LET w == Strip(field, WhiteSpace)
    IN  IF Len(w) = 0 THEN ""
        ELSE IF Len(w) = 1 THEN (IF w[1] = I(0 - 9999) THEN "-9999" ELSE w[1].k)
        ELSE "?"

RECURSIVE PadTo(_, _)
\* lines 217-218
PadTo(colLines, n) ==
    IF Len(colLines) < n THEN PadTo(Append(colLines, <<L(" ")>>), n) ELSE colLines

\* DecodeLine with the test of line 210 as len(colLines) > 5
DecodeLineFiveFields(line, ncols) ==
    LET colLines == Split(RewriteBrackets(line), ",")
    IN  IF Strip(colLines[1], WhiteSpace) = <<>>
        THEN IF Len(colLines) > 5
             THEN [kind |-> "patch", fields |-> colLines]
             ELSE [kind |-> "skip", fields |-> colLines]
        ELSE [kind |-> "row", fields |-> PadTo(colLines, ncols)]

\* lines 205-219 for one line that is not skipped at line 192
DecodeLine(line, ncols) ==
    LET colLines == Split(RewriteBrackets(line), ",")
    IN  IF Strip(colLines[1], WhiteSpace) = <<>>
        THEN IF Len(colLines) > 4
             THEN [kind |-> "patch", fields |-> colLines]
             ELSE [kind |-> "skip", fields |-> colLines]
        ELSE [kind |-> "row", fields |-> PadTo(colLines, ncols)]

\* lines 191-219: the decoded lines of the file, in order
DecodedLines(lines, ncols) ==
    LET kept == SelectSeq(lines, LAMBDA ln : ~IsSkipped(ln))
    IN  [i \in 1..Len(kept) |-> DecodeLine(kept[i], ncols)]

\* lines 211-214 over all patch lines: ok = FALSE when an angle is not understood
RECURSIVE PatchMeta(_, _)
PatchMeta(decoded, metaDict) ==
    IF Len(decoded) = 0 THEN [ok |-> TRUE, meta |-> metaDict]
    ELSE IF decoded[1].kind # "patch" THEN PatchMeta(Tail(decoded), metaDict)
    ELSE LET f == decoded[1].fields
             patchName == TextOf(f[3])
             patchRA == RA2Angle(Strip(f[4], WhiteSpace))
             patchDec == Dec2Angle(Strip(f[5], WhiteSpace))
         IN  IF ~patchRA.ok \/ ~patchDec.ok THEN [ok |-> FALSE, meta |-> metaDict]
             ELSE PatchMeta(Tail(decoded),
                            (patchName :> Pos(patchRA.val, patchDec.val)) @@ metaDict)

(***************************************************************************)
(* Table.read(format='ascii.no_header', delimiter=','), line 235: fields   *)
(* are stripped, a blank field is masked, and a column is int if all its   *)
(* fields read as int, else float if all read as float, else str.          *)
(***************************************************************************)
FieldKind(field) ==
    LET w == Strip(field, WhiteSpace)
    IN  IF Len(w) = 0 THEN "blank"
        ELSE IF Len(w) = 1 /\ w[1].k \in {"i", "nz"} THEN "int"
        ELSE IF Len(w) = 1 /\ w[1].k = "f" THEN "float"
        ELSE "str"

ColumnType(fields) ==
    LET kinds == {FieldKind(fields[i]) : i \in 1..Len(fields)}
    IN  IF kinds \subseteq {"blank", "int"} THEN "int"
        ELSE IF kinds \subseteq {"blank", "int", "float"} THEN "float"
        ELSE "str"

(***************************************************************************)
(* skyModelReader, the spectral index column: tableio.py lines 238-269.    *)
(***************************************************************************)
\* line 241, table['SpectralIndex'].data.tolist(): None for a masked entry
SpecOld(fields) ==
    LET tolist(type) ==
            [i \in 1..Len(fields) |->
                IF FieldKind(fields[i]) = "blank" THEN [t |-> "None", s |-> <<>>]
                ELSE [t |-> type, s |-> Strip(fields[i], WhiteSpace)]]
    IN  tolist(ColumnType(fields))

\* lines 249 and 258-260: the entry of one value; ok = FALSE is an exception
\* (None and int have no split, a part may not read as a float)
SpecEntry(l) ==
    IF l.t = "float" THEN [ok |-> TRUE, val |-> <<Float(l.s).val>>]
    ELSE IF l.t = "str"
    THEN LET entry(fl) == [ok |-> fl.t = "list", val |-> fl.l]
         IN  entry(FloatList(Split(l.s, ";")))
    ELSE [ok |-> FALSE, val |-> <<>>]

RECURSIVE MaxLenLoop(_, _)
\* lines 243-253
MaxLenLoop(specOld, maxLen) ==
    IF Len(specOld) = 0 THEN maxLen
    ELSE LET next(l, e) == IF l.t = "float" THEN 1
                           ELSE IF e.ok /\ Len(e.val) > maxLen THEN Len(e.val)
                           ELSE maxLen
         IN  MaxLenLoop(Tail(specOld), next(specOld[1], SpecEntry(specOld[1])))

RECURSIVE Pad(_, _)
\* lines 261-262 and 300-301
Pad(specEntry, maxLen) ==
    IF Len(specEntry) < maxLen THEN Pad(Append(specEntry, 0), maxLen) ELSE specEntry

Zeros(n) == [i \in 1..n |-> 0]

\* lines 255-265
SpecVec(specOld, maxLen) ==
    LET vec(e) == IF e.ok THEN Pad(e.val, maxLen) ELSE Zeros(maxLen)
    IN  [i \in 1..Len(specOld) |-> vec(SpecEntry(specOld[i]))]

(***************************************************************************)
(* skyModelReader, the angle columns: tableio.py lines 271-290 with        *)
(* RA2Angle / Dec2Angle on a list (lines 328-338, 361-372).                *)
(***************************************************************************)
\* a column of degrees (int or float) or of makesourcedb strings; any masked
\* entry makes the conversion raise
AngleColumn(fields, OfString(_)) ==
    LET one(type, i) ==
            IF FieldKind(fields[i]) = "blank" THEN [ok |-> FALSE, val |-> 0]
            ELSE IF type = "str" THEN OfString(Strip(fields[i], WhiteSpace))
            ELSE [ok |-> TRUE, val |-> Float(fields[i]).val * 3600]
        all(type) ==
            [ok |-> \A i \in 1..Len(fields) : one(type, i).ok,
             val |-> [i \in 1..Len(fields) |-> one(type, i).val]]
    IN  all(ColumnType(fields))

(***************************************************************************)
(* skyModelReader: tableio.py lines 64-307.  lines is the file, acdIn the  *)
(* list allowedColumnDefaults['spectralindex'] as the call finds it.       *)
(* The result is the table (its meta and the fill value of SpectralIndex   *)
(* included) and the list as the call leaves it; ok = FALSE is a raise.    *)
(***************************************************************************)
NoTable ==
    [colNames |-> <<>>, rows |-> <<>>, masked |-> FALSE, width |-> 0,
     meta |-> <<>>, fill |-> None]

Raised(acdIn) == [ok |-> FALSE, table |-> NoTable, acd |-> acdIn]

\* lines 223-307: the table of the buffered source lines; fields[r] is the
\* list of fields of line r, metaDict the dictionary of the header and of
\* the patch lines
ConvertTable(colNames, metaDict, fields, acdIn) ==
    LET n == Len(fields)
        ncols == Len(colNames)
        at(c) == ListIndex(colNames, c)
        column(c) == [r \in 1..n |-> fields[r][at(c)]]
        hasSI == at("SpectralIndex") # 0
        siExplicit == "SpectralIndex" \in DOMAIN metaDict
        colDefault == IF siExplicit THEN metaDict["SpectralIndex"] ELSE List(acdIn)
        cell(r, c, specVec, RA, Dec) ==
            IF c = "SpectralIndex" THEN specVec[r]
            ELSE IF c = "Ra" THEN RA.val[r]
            ELSE IF c = "Dec" THEN Dec.val[r]
            ELSE IF c \in {"Name", "Type", "Patch"} THEN TextOf(fields[r][at(c)])
            ELSE IF FieldKind(fields[r][at(c)]) = "blank" THEN None
            ELSE Num(Float(fields[r][at(c)]).val)
        \* lines 292-307
        finish(setsFill, maxLen, specVec, RA, Dec, padded) ==
            IF ~RA.ok \/ ~Dec.ok \/ (setsFill /\ colDefault.t # "list")
            THEN Raised(acdIn)
            ELSE [ok |-> TRUE,
                  table |->
                    [colNames |-> colNames,
                     rows |-> [r \in 1..n |->
                                 [c \in Range(colNames) |-> cell(r, c, specVec, RA, Dec)]],
                     masked |-> setsFill,
                     width |-> maxLen,
                     meta |-> IF setsFill /\ hasSI /\ siExplicit
                              THEN [metaDict EXCEPT !["SpectralIndex"] = padded]
                              ELSE metaDict,
                     fill |-> IF setsFill /\ hasSI THEN padded ELSE None],
                  acd |-> IF setsFill /\ hasSI /\ ~siExplicit THEN padded.l ELSE acdIn]
        \* lines 238-290
        convert(masked, specOld, maxLen) ==
            finish(masked, maxLen, SpecVec(specOld, maxLen),
                   AngleColumn(column("Ra"), RA2Angle),
                   AngleColumn(column("Dec"), Dec2Angle),
                   List(Pad(colDefault.l, maxLen)))
        spectral(masked, specOld) == convert(masked, specOld, MaxLenLoop(specOld, 0))
    IN  IF \/ \E i, j \in 1..ncols : i # j /\ colNames[i] = colNames[j]
           \/ at("Name") = 0 \/ at("Type") = 0 \/ at("Ra") = 0 \/ at("Dec") = 0
           \/ n = 0
           \/ \E r \in 1..n : Len(fields[r]) > ncols
        THEN Raised(acdIn)
        ELSE spectral(\E r \in 1..n : \E j \in 1..ncols : FieldKind(fields[r][j]) = "blank",
                      IF hasSI THEN SpecOld(column("SpectralIndex")) ELSE <<>>)

RECURSIVE Outlines(_)
\* line 219: the fields of the buffered source lines
Outlines(decoded) ==
    IF Len(decoded) = 0 THEN <<>>
    ELSE IF decoded[1].kind = "row"
    THEN <<decoded[1].fields>> \o Outlines(Tail(decoded))
    ELSE Outlines(Tail(decoded))

skyModelReader(lines, acdIn) ==
    LET convert(h, pm, decoded) ==
            IF ~pm.ok THEN Raised(acdIn)
            ELSE ConvertTable(h.colNames, pm.meta, Outlines(decoded), acdIn)
        decode(h, decoded) == convert(h, PatchMeta(decoded, h.meta), decoded)
        read(h) ==
            IF ~h.ok THEN Raised(acdIn)
            ELSE decode(h, DecodedLines(lines, Len(h.colNames)))
    IN  read(ParseHeader(lines))

(***************************************************************************)
(* skyModelWriter and rowStr: tableio.py lines 394-513.                    *)
(***************************************************************************)
\* Angle(x, unit='degree').to_string(unit='hourangle', sep=':'), whole seconds
StrRA(x) ==
    LET t == x \div 150
    IN  <<I(t \div 3600), L(":"), I((t % 3600) \div 60), L(":"), I(t % 60)>>

\* Angle(x, unit='degree').to_string(unit='degree', sep='.'), whole arcseconds
StrDec(x) ==
    LET t == Abs(x) \div 10
        d == t \div 3600
    IN  <<IF x >= 0 THEN I(d) ELSE IF d = 0 THEN NegZero ELSE I(-d),
          L("."), I((t % 3600) \div 60), L("."), I(t % 60)>>

\* str() of a default held in meta
StrDefault(val) ==
    IF val.t = "list" THEN <<L("[")>> \o StrList(val.l) \o <<L("]")>>
    ELSE IF val.t = "num" THEN StrFloat(val.l[1])
    ELSE <<L("?")>>

\* lines 420-428
ColHeader(colName, meta) ==
    IF colName \in DOMAIN meta
    THEN <<L(colName), L("="), L("'")>> \o StrDefault(meta[colName]) \o <<L("'")>>
    ELSE IF colName = "SpectralIndex"
    THEN <<L(colName), L("="), L("'"), L("["), L("]"), L("'")>>
    ELSE <<L(colName)>>

CommaSpace == <<L(","), L(" ")>>
Blank == <<L(" ")>>

\* lines 414-430
FormatLine(table) ==
    FormatPrefix \o
    Join([i \in 1..Len(table.colNames) |-> ColHeader(table.colNames[i], table.meta)],
         CommaSpace)

RECURSIVE PopBlanks(_)
\* lines 511-512
PopBlanks(line) ==
    IF Len(line) > 0 /\ line[Len(line)] = Blank
    THEN PopBlanks(SubSeq(line, 1, Len(line) - 1)) ELSE line

Sentinel == 0 - 9999

\* lines 485-509: the string of one value.  A masked entry was filled with
\* -9999, which a string column holds as the text '-9999'.
ValueStr(colKey, d, metaDict, acd) ==
    IF colKey = "SpectralIndex"
    THEN IF \E i \in 1..Len(d) : d[i] = Sentinel THEN Blank
         ELSE LET defaultVal == List(acd)
                  hasfillVal == colKey \in DOMAIN metaDict
                  fillVal == IF hasfillVal THEN metaDict[colKey] ELSE defaultVal
                  dlist == IF (hasfillVal /\ List(d) = fillVal)
                              \/ (~hasfillVal /\ List(d) = defaultVal)
                           THEN <<>> ELSE d
              IN  <<L("[")>> \o StrList(dlist) \o <<L("]")>>
    ELSE IF colKey = "Ra" THEN IF d = Sentinel THEN Blank ELSE StrRA(d)
    ELSE IF colKey = "Dec" THEN IF d = Sentinel THEN Blank ELSE StrDec(d)
    ELSE IF colKey \in {"Name", "Type", "Patch"}
    THEN IF d = "" THEN <<I(Sentinel)>> ELSE <<L(d)>>
    ELSE IF d = None \/ d = Num(Sentinel) THEN Blank
    ELSE StrFloat(d.l[1])

\* lines 479-513
rowStr(row, colNames, metaDict, acd) ==
    PopBlanks([i \in 1..Len(colNames) |->
                  ValueStr(colNames[i], row[colNames[i]], metaDict, acd)])

\* the patch names of the model's files in sorted order
PatchOrder == <<"P", "Q">>

RECURSIVE GroupBy(_, _)
\* line 436, table.group_by('Patch'): the rows sorted by patch, stably
GroupBy(rows, order) ==
    IF Len(order) = 0
    THEN SelectSeq(rows, LAMBDA r : r["Patch"] \notin Range(PatchOrder))
    ELSE GroupBy(rows, SubSeq(order, 1, Len(order) - 1)) \o
         SelectSeq(rows, LAMBDA r : r["Patch"] = order[Len(order)])

\* line 437: the distinct patch names, sorted
PatchKeys(rows) ==
    SelectSeq(PatchOrder, LAMBDA q : \E i \in 1..Len(rows) : rows[i]["Patch"] = q)

\* lines 440-448
PatchLine(patchName, meta) ==
    LET g == IF patchName \in DOMAIN meta THEN meta[patchName].l ELSE <<0, 0>>
    IN  <<L(" "), L(","), L(" "), L(","), L(" "), L(patchName)>> \o CommaSpace \o
        StrRA(g[1]) \o CommaSpace \o StrDec(g[2])

\* lines 394-460: the lines of the written file
skyModelWriter(table, acd) ==
    LET hasPatch == \E i \in 1..Len(table.colNames) : table.colNames[i] = "Patch"
        rows == IF hasPatch THEN GroupBy(table.rows, PatchOrder) ELSE table.rows
        keys == IF hasPatch THEN PatchKeys(table.rows) ELSE <<>>
    IN  <<FormatLine(table), <<>>>> \o
        [i \in 1..Len(keys) |-> PatchLine(keys[i], table.meta)] \o
        [i \in 1..Len(rows) |->
            Join(rowStr(rows[i], table.colNames, table.meta, acd), CommaSpace)]

(***************************************************************************)
(* The makesourcedb files that are read.  A file is described by the       *)
(* order of its columns, the default its header declares for               *)
(* SpectralIndex (None = none declared), the lines between the header and  *)
(* the source lines, and the SpectralIndex token of each source line.      *)
(***************************************************************************)
MaxCoef == 2
MaxFileRows == 2

LayoutLast  == <<"Name", "Type", "Patch", "Ra", "Dec", "SpectralIndex">>
LayoutMid   == <<"Name", "Type", "SpectralIndex", "Ra", "Dec">>
LayoutFirst == <<"SpectralIndex", "Name", "Type", "Ra", "Dec">>
Layouts == {LayoutLast, LayoutMid, LayoutFirst}

\* coefficient lists: all zero, or -0.8 followed by zeros
CoefLists == UNION {{Zeros(k), <<0 - 8>> \o Zeros(k - 1)} : k \in 1..MaxCoef}

SIDefaults == {None} \cup {List(l) : l \in CoefLists}

TokEmpty == <<L("["), L("]")>>
TokBad == <<L("["), L("x"), L("]")>>
TokInt == <<L("["), I(1), L("]")>>
TokList(l) == <<L("[")>> \o StrList(l) \o <<L("]")>>
\* <<>> is a blank field, left out when it ends the line
SITokens == {<<>>, TokEmpty, TokBad, TokInt} \cup {TokList(l) : l \in CoefLists}

RowTokens == UNION {[1..n -> SITokens] : n \in 1..MaxFileRows}

\* the lines a file may hold between its header and its source lines
PatchLineP == PatchLine("P", ("P" :> Pos(540000, 378000)))
\* a source line that leaves its Type blank
BlankTypeLine ==
    <<L("D"), L(","), L(" "), L(","), L(" "), L("P"), L(","), L(" "),
      I(1), L(":"), I(0), L(":"), I(4), L(","), L(" "),
      I(10), L("."), I(30), L("."), I(4), L(","), L(" ")>> \o TokList(<<0 - 8>>)
ExtraLines ==
    {<<>>,
     <<BlankTypeLine>>,
     <<PatchLineP>>,
     << <<L(" "), L(","), L(" "), L(","), L(" "), L("P")>> >>,
     << <<L(" "), L(","), L(" "), L(","), L(" "), L("P"), L(","), L(" "), L("x")>> >>,
     << <<L("#"), L(" "), L("A"), L(","), L(" "), L("POINT")>> >>,
     << <<L(" "), L(","), L(" "), L(","), L(" "), L("P"), L(","), L(" "),
          I(1), L(":"), I(0), L(":"), I(0), L(","), L(" "),
          NegZero, L("."), I(30), L("."), I(0)>> >>}

NoFile == [layout |-> <<>>, default |-> None, extra |-> <<>>, tokens |-> <<>>]

InputFiles ==
    \* every header, over one plain source line
    [layout : Layouts, default : SIDefaults, extra : {<<>>},
     tokens : {<<TokList(<<0 - 8>>)>>}]
    \cup
    \* every body, under no declared default, a default of one coefficient
    \* and one of as many coefficients as a line may hold
    [layout : {LayoutLast}, default : {None, List(<<0 - 8>>), List(Zeros(MaxCoef))},
     extra : {<<>>}, tokens : RowTokens]
    \cup
    \* every kind of line before the source lines
    [layout : {LayoutLast}, default : {None, List(<<0 - 8>>)}, extra : ExtraLines,
     tokens : {<<TokList(<<0 - 8>>)>>, <<TokList(<<0 - 8>>), <<>>>>}]

SourceNames == <<"A", "B", "C", "D">>

\* the field of column c in source line r
FieldText(c, r, tok) ==
    IF c = "Name" THEN <<L(SourceNames[r])>>
    ELSE IF c = "Type" THEN <<L("POINT")>>
    ELSE IF c = "Patch" THEN <<L("P")>>
    ELSE IF c = "Ra" THEN <<I(1), L(":"), I(0), L(":"), I(r)>>
    ELSE IF c = "Dec" THEN <<I(10), L("."), I(30), L("."), I(r)>>
    ELSE tok

SourceLine(layout, r, tok) ==
    LET n == IF layout[Len(layout)] = "SpectralIndex" /\ tok = <<>>
             THEN Len(layout) - 1 ELSE Len(layout)
    IN  Join([i \in 1..n |-> FieldText(layout[i], r, tok)], CommaSpace)

HeaderLine(layout, default) ==
    FormatPrefix \o
    Join([i \in 1..Len(layout) |->
            IF layout[i] = "SpectralIndex" /\ default # None
            THEN ColHeader(layout[i], ("SpectralIndex" :> default))
            ELSE <<L(layout[i])>>],
         CommaSpace)

\* the text of the file
FileLines(d) ==
    <<HeaderLine(d.layout, d.default)>> \o d.extra \o
    [r \in 1..Len(d.tokens) |-> SourceLine(d.layout, r, d.tokens[r])]

(***************************************************************************)
(* concatenate: operations/concatenate.py lines 42-178.                    *)
(*                                                                         *)
(* A sky model is [table, hasPatches]; its table is [colNames, rows,       *)
(* itemsize, meta].  A row holds Name, Patch ("" without a Patch column),  *)
(* Ra, Dec, SpectralIndex and match (-1 without a match column).  All      *)
(* sources lie on the equator (Dec = 0), so the separation of two rows is  *)
(* the difference of their Ra, counted in the unit of the radius.  A name  *)
(* is the sequence of its characters; the Name column is a numpy string    *)
(* column of itemsize characters, and a longer string assigned to one of   *)
(* its cells is cut to itemsize.  The field src of a row names the         *)
(* catalog and the row it was loaded from; no operation reads it.          *)
(***************************************************************************)
Min(a, b) == IF a < b THEN a ELSE b

\* a table without patch positions
NoMeta == [p \in {} |-> 0]

\* numpy.where(col == val)[0], counted from 1
Where(col, val) ==
    SelectSeq([i \in 1..Len(col) |-> i], LAMBDA i : col[i] = val)

\* table[colName] and SkyModel.getColValues(colName)
Column(rows, colName) == [i \in 1..Len(rows) |-> rows[i][colName]]

\* a patch's reference position: the centroid of its rows, as sum and count
Centroid(rows, patch) ==
    LET ra == Column(SelectSeq(rows, LAMBDA r : r.Patch = patch), "Ra")
        sum[i \in 0..Len(ra)] == IF i = 0 THEN 0 ELSE sum[i - 1] + ra[i]
    IN  [sum |-> sum[Len(ra)], n |-> Len(ra)]

\* SkyModel._updateGroups(method='mid')
updateGroups(LSM) ==
    [LSM EXCEPT !.table.meta =
        [p \in Range(Column(LSM.table.rows, "Patch")) |-> Centroid(LSM.table.rows, p)]]

\* SkyModel.group('every')
group(LSM) ==
    updateGroups(
        [table |-> [LSM.table EXCEPT
                        !.colNames = <<"Name", "Patch", "Ra", "Dec", "SpectralIndex">>,
                        !.rows = [i \in 1..Len(LSM.table.rows) |->
                                    [LSM.table.rows[i] EXCEPT !.Patch = "every"]]],
         hasPatches |-> TRUE])

\* SkyModel.ungroup()
ungroup(LSM) ==
    [table |-> [LSM.table EXCEPT
                    !.colNames = <<"Name", "Ra", "Dec", "SpectralIndex">>,
                    !.rows = [i \in 1..Len(LSM.table.rows) |->
                                [LSM.table.rows[i] EXCEPT !.Patch = ""]],
                    !.meta = NoMeta],
     hasPatches |-> FALSE]

\* lines 96-99: the second sky model after the patch reconciliation
Reconcile(LSM1, LSM2) ==
    IF LSM1.hasPatches /\ ~LSM2.hasPatches THEN group(LSM2)
    ELSE IF LSM2.hasPatches /\ ~LSM1.hasPatches THEN ungroup(LSM2)
    ELSE LSM2

\* table.remove_column(colName), lines 108-109 and 174
RemoveColumn(table, colName, blank) ==
    [table EXCEPT
        !.colNames = SelectSeq(table.colNames, LAMBDA c : c # colName),
        !.rows = [i \in 1..Len(table.rows) |->
                    [table.rows[i] EXCEPT ![colName] = blank]]]

\* vstack([table1, table2]), lines 112 and 134
vstack(table1, table2) ==
    [colNames |-> table1.colNames,
     rows |-> table1.rows \o table2.rows,
     itemsize |-> Max(table1.itemsize, table2.itemsize),
     meta |-> table2.meta @@ table1.meta]

\* the angular separation of two rows
Sep(r1, r2) == Abs(r1.Ra - r2.Ra)

\* line 119, catalog1.match_to_catalog_sky(catalog2): for each row of
\* catalog 1 the index of a nearest row of catalog 2; which of several
\* nearest rows is returned is up to the library
Nearest(rows1, rows2) ==
    {idx \in [1..Len(rows1) -> 1..Len(rows2)] :
        \A i \in 1..Len(rows1) : \A j \in 1..Len(rows2) :
            Sep(rows1[i], rows2[idx[i]]) <= Sep(rows1[i], rows2[j])}

\* lines 121-127: the match columns of the two tables, one after the other;
\* an index assigned twice keeps the last value
MatchColumn(rows1, rows2, idx, radius) ==
    LET n1 == Len(rows1)
        matches == {i \in 1..n1 : Sep(rows1[i], rows2[idx[i]]) <= radius}
        hits(j) == {i \in matches : idx[i] = j}
        last(S) == CHOOSE i \in S : \A k \in S : k <= i
    IN  [i \in 1..n1 |-> i - 1] \o
        [j \in 1..Len(rows2) |->
            IF hits(j) = {} THEN j - 1 + n1 ELSE last(hits(j)) - 1]

\* lines 129-133, table.add_column(Column(name='match', data=matchCol))
AddMatch(table, matchCol) ==
    [table EXCEPT
        !.colNames = Append(table.colNames, "match"),
        !.rows = [i \in 1..Len(table.rows) |->
                    [table.rows[i] EXCEPT !.match = matchCol[i]]]]

\* line 137: the number of spectral index terms of the merged table
spDataWidth == 2

\* lines 141 and 145, spData[i] = spCol[indx]: the value has one row per
\* index and is broadcast to the row of spData; ok = FALSE is numpy's
\* ValueError
Broadcast(spCol, indx) ==
    IF Len(indx) = 1 /\ Len(spCol[indx[1]]) = spDataWidth
    THEN [ok |-> TRUE, val |-> spCol[indx[1]]]
    ELSE IF Len(indx) = 1 /\ Len(spCol[indx[1]]) = 1
    THEN [ok |-> TRUE, val |-> [k \in 1..spDataWidth |-> spCol[indx[1]][1]]]
    ELSE [ok |-> FALSE, val |-> <<>>]

\* lines 138-145: the spectral index column of the stacked table
spData(names, nameCol1, nameCol2, spCol1, spCol2) ==
    LET one(name) ==
            IF \E j \in 1..Len(nameCol2) : nameCol2[j] = name
            THEN Broadcast(spCol2, Where(nameCol2, name))
            ELSE Broadcast(spCol1, Where(nameCol1, name))
    IN  [ok |-> \A i \in 1..Len(names) : one(names[i]).ok,
         val |-> [i \in 1..Len(names) |-> one(names[i]).val]]

\* line 147, table.add_column(spCol, index=spCol1Indx)
AddSpectralIndex(table, spCol, colNames1) ==
    [table EXCEPT
        !.colNames = colNames1 \o
                     SelectSeq(table.colNames, LAMBDA c : c = "match"),
        !.rows = [i \in 1..Len(table.rows) |->
                    [table.rows[i] EXCEPT !.SpectralIndex = spCol[i]]]]

\* ToRemove with indx[:-1] for indx[1:] at line 160
ToRemoveButLast(vals, keep) ==
    LET indx(i) == Where(vals, vals[i])
        dup == SelectSeq([i \in 1..Len(vals) |-> i], LAMBDA i : Len(indx(i)) > 1)
    IN  [k \in 1..Len(dup) |->
            IF keep = "from1" THEN SubSeq(indx(dup[k]), 1, Len(indx(dup[k])) - 1)
            ELSE <<indx(dup[k])[1]>>]

\* lines 155-162: what the loop appends to toRemove, row by row
ToRemove(vals, keep) ==
    LET indx(i) == Where(vals, vals[i])
        dup == SelectSeq([i \in 1..Len(vals) |-> i], LAMBDA i : Len(indx(i)) > 1)
    IN  [k \in 1..Len(dup) |->
            IF keep = "from1" THEN Tail(indx(dup[k])) ELSE <<indx(dup[k])[1]>>]

\* line 163, table.remove_rows(toRemove): numpy.delete takes a list of
\* indices or of equally long index lists; ok = FALSE is its IndexError
RemoveRows(rows, toRemove) ==
    IF \E a, b \in 1..Len(toRemove) : Len(toRemove[a]) # Len(toRemove[b])
    THEN [ok |-> FALSE, rows |-> rows]
    ELSE LET kept == SelectSeq([i \in 1..Len(rows) |-> i], LAMBDA i :
                        \A a \in 1..Len(toRemove) : \A b \in 1..Len(toRemove[a]) :
                            toRemove[a][b] # i)
         IN  [ok |-> TRUE, rows |-> [k \in 1..Len(kept) |-> rows[kept[k]]]]

\* a string assigned to a cell of a string column of itemsize characters
Truncate(s, itemsize) == SubSeq(s, 1, Min(Len(s), itemsize))

\* lines 166-171
Rename(rows, itemsize) ==
    LET names == Column(rows, "Name")
        new(i, indx) ==
            IF Len(indx) > 1 /\ i = indx[1]
            THEN Truncate(names[i] \o <<"_", "1">>, itemsize)
            ELSE IF Len(indx) > 1 /\ i = indx[2]
            THEN Truncate(names[i] \o <<"_", "2">>, itemsize)
            ELSE names[i]
    IN  [i \in 1..Len(rows) |->
            [rows[i] EXCEPT !.Name = new(i, Where(names, names[i]))]]

\* lines 42-178.  idx is what match_to_catalog_sky returns at line 119.
\* The result is the two sky models as the call leaves them, the match
\* column as lines 121-127 compute it (<<>> when matchBy is 'name'), and
\* ok = FALSE when the call raises.
concatenate(LSM1, LSM2in, matchBy, radius, keep, idx) ==
    LET LSM2 == Reconcile(LSM1, LSM2in)
        table1 == LSM1.table
        table2 == LSM2.table
        nameCol1 == Column(table1.rows, "Name")
        nameCol2 == Column(table2.rows, "Name")
        spCol1 == Column(table1.rows, "SpectralIndex")
        spCol2 == Column(table2.rows, "SpectralIndex")
        bare1 == RemoveColumn(table1, "SpectralIndex", <<>>)
        bare2 == RemoveColumn(table2, "SpectralIndex", <<>>)
        matchCol == IF matchBy = "position"
                    THEN MatchColumn(table1.rows, table2.rows, idx, radius)
                    ELSE <<>>
        n1 == Len(table1.rows)
        stacked ==
            IF matchBy = "name" THEN vstack(bare1, bare2)
            ELSE vstack(AddMatch(bare1, SubSeq(matchCol, 1, n1)),
                        AddMatch(bare2, SubSeq(matchCol, n1 + 1, Len(matchCol))))
        out(ok, table) ==
            [ok |-> ok, LSM1 |-> [LSM1 EXCEPT !.table = table], LSM2 |-> LSM2,
             match |-> matchCol]
        \* lines 165-177
        finish(rows) ==
            LET renamed == [stacked EXCEPT
                                !.rows = Rename(rows, stacked.itemsize),
                                !.colNames = table1.colNames]
                final == IF matchBy = "position"
                         THEN RemoveColumn(renamed, "match", 0 - 1)
                         ELSE renamed
                done == out(TRUE, final)
            IN  IF LSM1.hasPatches
                THEN [done EXCEPT !.LSM1 = updateGroups(done.LSM1)]
                ELSE done
        \* lines 148-163
        resolve(full) ==
            IF keep \in {"from1", "from2"}
            THEN LET colName == IF matchBy = "name" THEN "Name" ELSE "match"
                     removed == RemoveRows(full.rows,
                                           ToRemove(Column(full.rows, colName), keep))
                 IN  IF removed.ok THEN finish(removed.rows) ELSE out(FALSE, full)
            ELSE finish(full.rows)
        \* lines 136-146
        restore(sp) ==
            IF sp.ok
            THEN resolve(AddSpectralIndex(stacked, sp.val, table1.colNames))
            ELSE out(FALSE, stacked)
    IN  restore(spData(Column(stacked.rows, "Name"),
                       nameCol1, nameCol2, spCol1, spCol2))

(***************************************************************************)
(* The sky models that are merged.  The sky holds three sources: A and B   *)
(* at the same position, and a second source named B one unit of Ra away.  *)
(* A catalog is given by the sources of its rows, the number of spectral   *)
(* index terms of its rows, the width of its Name column (a column keeps   *)
(* its width when the row with its longest name is removed) and whether    *)
(* it has patches.  A catalog of several rows covers one of two fields:    *)
(* the two sources at the same position, or A and the source away from it. *)
(***************************************************************************)
MaxRows1 == 3
MaxRows2 == 2
MaxTerms == 3

SourceA == [Name |-> <<"A">>, Ra |-> 0]
SourceB == [Name |-> <<"B">>, Ra |-> 0]
SourceFar == [Name |-> <<"B">>, Ra |-> 1]
Sources == {SourceA, SourceB, SourceFar}
\* a source at the position of A whose name is that of A followed by _1
SourceA1 == [Name |-> <<"A", "_", "1">>, Ra |-> 0]
Fields == {{SourceA, SourceB}, {SourceA, SourceFar}}
Radii == {0 - 1, 0, 1}

\* the spectral index of row r of catalog c: no two rows share a term
Terms(c, r, w) == [k \in 1..w |-> 100 * k + 10 * c + r]

Catalog(c, sources, w, itemsize, hasPatches) ==
    LET LSM == [table |->
                   [colNames |-> <<"Name", "Ra", "Dec", "SpectralIndex">>,
                    rows |-> [r \in 1..Len(sources) |->
                                [Name |-> sources[r].Name, Patch |-> "",
                                 Ra |-> sources[r].Ra, Dec |-> 0,
                                 SpectralIndex |-> Terms(c, r, w),
                                 match |-> 0 - 1,
                                 src |-> [cat |-> c, row |-> r]]],
                    itemsize |-> itemsize,
                    meta |-> NoMeta],
                hasPatches |-> FALSE]
    IN  IF hasPatches THEN group(LSM) ELSE LSM

\* catalogs of up to n rows with two spectral index terms, a Name column
\* three characters wide and no patches
Catalogs(c, n) ==
    UNION {{Catalog(c, sources, 2, 3, FALSE) :
                sources \in UNION {[1..k -> field] : field \in Fields}} : k \in 1..n}

\* catalogs of one row
OneRow(c, terms, widths, patches) ==
    {Catalog(c, <<s>>, w, itemsize, hasPatches) :
        s \in Sources, w \in terms, itemsize \in widths, hasPatches \in patches}

MergeInputs ==
    (Catalogs(1, MaxRows1) \X Catalogs(2, MaxRows2))
    \* any number of spectral index terms
    \cup (OneRow(1, 0..MaxTerms, {3}, {FALSE}) \X OneRow(2, 0..MaxTerms, {3}, {FALSE}))
    \* with and without patches
    \cup (OneRow(1, {2}, {3}, BOOLEAN) \X OneRow(2, {2}, {3}, BOOLEAN))
    \* a Name column as wide as the names
    \cup (OneRow(1, {2}, {1}, {FALSE}) \X OneRow(2, {2}, {1}, {FALSE}))
    \* a catalog that holds the names A and A_1
    \cup ({Catalog(1, <<SourceA, SourceA1>>, 2, 3, FALSE)}
            \X {Catalog(2, <<SourceA>>, 2, 3, FALSE), Catalog(2, <<SourceB>>, 2, 3, FALSE)})

NoModel ==
    [table |-> [colNames |-> <<>>, rows |-> <<>>, itemsize |-> 0, meta |-> NoMeta],
     hasPatches |-> FALSE]
NoArgs == [matchBy |-> "", radius |-> 0, keep |-> ""]
(***************************************************************************)
(* The state.  The codec: a process reads a file, may write the table and  *)
(* read the written file back, and drops the table; the list               *)
(* allowedColumnDefaults['spectralindex'] is module state and lives on.    *)
(* The merge: two sky models are loaded, LSM1.concatenate(LSM2, ...) is    *)
(* called once, and the models are dropped.  cat1 and cat2 are the sky     *)
(* models as loaded, args the arguments of the call, match the match       *)
(* column the call computed.  The angle codec: Dec2Angle is called on a    *)
(* list of declination strings, Dec, and returns the list DecAngle.        *)
(***************************************************************************)
VARIABLES acd, pc, input, table, first, disk,
          mpc, LSM1, LSM2, cat1, cat2, args, match,
          apc, Dec, DecAngle

ioVars == <<acd, pc, input, table, first, disk>>
mergeVars == <<mpc, LSM1, LSM2, cat1, cat2, args, match>>
angleVars == <<apc, Dec, DecAngle>>
vars == <<acd, pc, input, table, first, disk, mpc, LSM1, LSM2, cat1, cat2, args, match,
          apc, Dec, DecAngle>>

IOInit ==
    /\ acd = <<0>>
    /\ pc = "idle"
    /\ input = NoFile
    /\ table = NoTable
    /\ first = NoTable
    /\ disk = <<>>

MergeInit ==
    /\ mpc = "idle"
    /\ LSM1 = NoModel
    /\ LSM2 = NoModel
    /\ cat1 = NoModel
    /\ cat2 = NoModel
    /\ args = NoArgs
    /\ match = <<>>

AngleInit ==
    /\ apc = "idle"
    /\ Dec = <<>>
    /\ DecAngle = <<>>

Init == IOInit /\ MergeInit /\ AngleInit

\* table = skyModelReader(fileName) on an input file
Read(d) ==
    /\ pc = "idle"
    /\ \E res \in {skyModelReader(FileLines(d), acd)} :
           /\ pc' = IF res.ok THEN "read" ELSE "failed"
           /\ table' = res.table
           /\ acd' = res.acd
    /\ input' = d
    /\ UNCHANGED <<first, disk>>
    /\ UNCHANGED mergeVars
    /\ UNCHANGED angleVars

\* skyModelWriter(table, fileName)
Write ==
    /\ pc = "read"
    /\ disk' = skyModelWriter(table, acd)
    /\ first' = table
    /\ pc' = "written"
    /\ UNCHANGED <<acd, input, table>>
    /\ UNCHANGED mergeVars
    /\ UNCHANGED angleVars

\* table = skyModelReader(fileName) on the file just written
ReadBack ==
    /\ pc = "written"
    /\ \E res \in {skyModelReader(disk, acd)} :
           /\ pc' = IF res.ok THEN "reread" ELSE "failed"
           /\ table' = res.table
           /\ acd' = res.acd
    /\ UNCHANGED <<input, first, disk>>
    /\ UNCHANGED mergeVars
    /\ UNCHANGED angleVars

\* the table goes out of scope
Close ==
    /\ pc \in {"read", "reread", "failed"}
    /\ pc' = "idle"
    /\ input' = NoFile
    /\ table' = NoTable
    /\ first' = NoTable
    /\ disk' = <<>>
    /\ UNCHANGED acd
    /\ UNCHANGED mergeVars
    /\ UNCHANGED angleVars

\* the caller holds two sky models
Load(c) ==
    /\ mpc = "idle"
    /\ mpc' = "loaded"
    /\ LSM1' = c[1]
    /\ LSM2' = c[2]
    /\ cat1' = c[1]
    /\ cat2' = c[2]
    /\ UNCHANGED <<args, match>>
    /\ UNCHANGED ioVars
    /\ UNCHANGED angleVars

\* LSM1.concatenate(LSM2, matchBy, radius, keep); matchBy 'name' does not
\* read the radius, which is then left at 0
Concatenate(matchBy, radius, keep) ==
    /\ mpc = "loaded"
    /\ matchBy = "name" => radius = 0
    /\ \E idx \in IF matchBy = "position"
                  THEN Nearest(LSM1.table.rows, LSM2.table.rows) ELSE {<<>>} :
       \E res \in {concatenate(LSM1, LSM2, matchBy, radius, keep, idx)} :
           /\ mpc' = IF res.ok THEN "returned" ELSE "raised"
           /\ LSM1' = res.LSM1
           /\ LSM2' = res.LSM2
           /\ match' = res.match
    /\ args' = [matchBy |-> matchBy, radius |-> radius, keep |-> keep]
    /\ UNCHANGED <<cat1, cat2>>
    /\ UNCHANGED ioVars
    /\ UNCHANGED angleVars

\* the sky models go out of scope
Drop ==
    /\ mpc \in {"returned", "raised"}
    /\ mpc' = "idle"
    /\ LSM1' = NoModel
    /\ LSM2' = NoModel
    /\ cat1' = NoModel
    /\ cat2' = NoModel
    /\ args' = NoArgs
    /\ match' = <<>>
    /\ UNCHANGED ioVars
    /\ UNCHANGED angleVars

\* DecAngle = Dec2Angle(Dec) on a list of strings: lines 358-372
Dec2AngleCall(strs) ==
    /\ apc = "idle"
    /\ Dec' = strs
    /\ \E res \in {[i \in 1..Len(strs) |-> Dec2Angle(strs[i])]} :
           IF \A i \in 1..Len(res) : res[i].ok
           THEN apc' = "returned" /\ DecAngle' = [i \in 1..Len(res) |-> res[i].val]
           ELSE apc' = "raised" /\ DecAngle' = <<>>
    /\ UNCHANGED ioVars
    /\ UNCHANGED mergeVars

\* the angles go out of scope
Forget ==
    /\ apc \in {"returned", "raised"}
    /\ apc' = "idle"
    /\ Dec' = <<>>
    /\ DecAngle' = <<>>
    /\ UNCHANGED ioVars
    /\ UNCHANGED mergeVars

Next ==
    \/ \E d \in InputFiles : Read(d)
    \/ Write
    \/ ReadBack
    \/ Close

MergeNext ==
    \/ \E c \in MergeInputs : Load(c)
    \/ \E matchBy \in {"name", "position"}, radius \in Radii,
          keep \in {"all", "from1", "from2"} : Concatenate(matchBy, radius, keep)
    \/ Drop

Spec == Init /\ [][Next]_vars

SpecMerge == Init /\ [][MergeNext]_vars

AngleNext ==
    \/ \E strs \in DecLists : Dec2AngleCall(strs)
    \/ Forget

SpecAngle == Init /\ [][AngleNext]_vars

(***************************************************************************)
(* Properties of the codec, checked under Spec.                            *)
(***************************************************************************)
\* the coefficients a SpectralIndex token of an input file supplies
IsList(tok) == \E l \in CoefLists : TokList(l) = tok
Supplied(tok) ==
    IF tok = TokInt THEN <<10>>
    ELSE IF IsList(tok) THEN CHOOSE l \in CoefLists : TokList(l) = tok
    ELSE <<>>
MaxSupplied(toks) ==
    CHOOSE m \in 0..MaxCoef :
        /\ \A i \in 1..Len(toks) : Len(Supplied(toks[i])) <= m
        /\ m = 0 \/ \E i \in 1..Len(toks) : Len(Supplied(toks[i])) = m

\* an input file whose source lines leave SpectralIndex out or give it as a
\* bracketed list of floats, and whose other lines are patch lines or comments
WellFormed(d) ==
    /\ \A i \in 1..Len(d.tokens) :
           d.tokens[i] = <<>> \/ d.tokens[i] = TokEmpty \/ IsList(d.tokens[i])
    /\ \A i \in 1..Len(d.extra) : IsSkipped(d.extra[i]) \/ Len(Split(d.extra[i], ",")) > 4

\* C1: reading a well-formed file, writing the table and reading the written
\* file again gives a table with the same columns, the same rows and the
\* same SpectralIndex width as the first read.
C1_RoundTrip ==
    (pc \in {"reread", "failed"} /\ first # NoTable /\ WellFormed(input)) =>
        /\ pc = "reread"
        /\ table.colNames = first.colNames
        /\ table.rows = first.rows
        /\ table.width = first.width

\* C2: after a read of a file whose rows are its listed source lines, every row's SpectralIndex has as many entries as the
\* longest list any source line supplies; a row keeps the coefficients it
\* supplies, followed by zeros, and a row whose token is no list of numbers
\* holds zeros only.
C2_UniformWidth ==
    (pc = "read" /\ \A i \in 1..Len(input.extra) :
                       \/ IsSkipped(input.extra[i])
                       \/ DecodeLine(input.extra[i], Len(input.layout)).kind # "row") =>
        /\ table.width = MaxSupplied(input.tokens)
        /\ Len(table.rows) = Len(input.tokens)
        /\ \A r \in 1..Len(table.rows) :
               table.rows[r]["SpectralIndex"] =
                   Pad(Supplied(input.tokens[r]), MaxSupplied(input.tokens))

\* C9: a header that declares a bracketed list as the default of
\* SpectralIndex, wherever the column stands, is parsed to the declared
\* columns in their order, one entry per column, and to the declared list
\* as the default of the column.
C9_HeaderRejoin ==
    (pc = "read" /\ input.default # None) =>
        /\ table.colNames = input.layout
        /\ ParseHeader(FileLines(input)).colNames = input.layout
        /\ ParseHeader(FileLines(input)).meta = ("SpectralIndex" :> input.default)

\* the lines of the file the table was read from that line 192 does not skip
CurrentLines ==
    SelectSeq(IF pc = "reread" THEN disk ELSE FileLines(input),
              LAMBDA ln : ~IsSkipped(ln))
LineFields(ln) == Split(RewriteBrackets(ln), ",")
BlankFirst(ln) == Strip(LineFields(ln)[1], WhiteSpace) = <<>>
IsPatchLine(ln) == BlankFirst(ln) /\ Len(LineFields(ln)) > 4
PatchNameOf(ln) == TextOf(LineFields(ln)[3])
PatchPosOf(ln) ==
    Pos(RA2Angle(Strip(LineFields(ln)[4], WhiteSpace)).val,
        Dec2Angle(Strip(LineFields(ln)[5], WhiteSpace)).val)

\* C10 as the specification states it: every line that is neither skipped
\* nor a patch line (a blank first field and more than 4 fields) becomes
\* exactly one row of the table.
C10_EveryOtherLineIsARow ==
    pc \in {"read", "reread"} =>
        Len(table.rows) = Len(SelectSeq(CurrentLines, LAMBDA ln : ~IsPatchLine(ln)))

\* C10, amended: a line with a blank first field and more than 4 fields
\* (counted after the bracketed list is rewritten) records the position of
\* its patch in meta and adds no row; a line with a blank first field and 4
\* or fewer fields adds no row and records nothing; every line with a first
\* field that is not blank becomes exactly one row, in file order, holding
\* every column of the header.
C10_RowDecoding ==
    pc \in {"read", "reread"} =>
        LET rowLines == SelectSeq(CurrentLines, LAMBDA ln : ~BlankFirst(ln))
            patchLines == SelectSeq(CurrentLines, IsPatchLine)
        IN  /\ Len(table.rows) = Len(rowLines)
            /\ \A k \in 1..Len(rowLines) :
                   /\ table.rows[k]["Name"] =
                          TextOf(LineFields(rowLines[k])[ListIndex(table.colNames, "Name")])
                   /\ DOMAIN table.rows[k] = Range(table.colNames)
            /\ \A k \in 1..Len(patchLines) :
                   /\ PatchNameOf(patchLines[k]) \in DOMAIN table.meta
                   /\ table.meta[PatchNameOf(patchLines[k])] = PatchPosOf(patchLines[k])
            /\ \A p \in DOMAIN table.meta :
                   \/ p = "SpectralIndex"
                   \/ \E k \in 1..Len(patchLines) : PatchNameOf(patchLines[k]) = p

\* a file with a patch line and a line of 4 or fewer fields with a blank
\* first field has been read
C10_Witness ==
    /\ pc \in {"read", "reread"}
    /\ Len(table.rows) > 0
    /\ \E i \in 1..Len(CurrentLines) : IsPatchLine(CurrentLines[i])
    /\ \E i \in 1..Len(CurrentLines) :
           BlankFirst(CurrentLines[i]) /\ ~IsPatchLine(CurrentLines[i])

\* the rows of the written table in the order the writer emits them, and
\* the number of lines the writer emits before them
WrittenRows ==
    IF ListIndex(first.colNames, "Patch") # 0
    THEN GroupBy(first.rows, PatchOrder) ELSE first.rows
LinesBeforeRows ==
    2 + (IF ListIndex(first.colNames, "Patch") # 0 THEN Len(PatchKeys(first.rows)) ELSE 0)
\* the fill value of a column: the default of the header, else the built-in
FillValue(c) ==
    IF c \in DOMAIN first.meta THEN first.meta[c]
    ELSE IF c = "SpectralIndex" THEN List(acd)
    ELSE allowedColumnDefaults(Lower(<<L(c)>>)[1].k)
\* the value of a cell, as the defaults are represented
CellValue(c, d) ==
    IF c = "SpectralIndex" THEN List(d)
    ELSE IF c \in {"Name", "Type", "Patch"}
    THEN (IF d = "N/A" THEN NA ELSE [t |-> "str", l |-> <<d>>])
    ELSE Num(d)

\* C11: every line the writer emits for a row is the comma-joined list of
\* the row's tokens, in which a value equal to its column's fill value is a
\* single blank token (or was trimmed with the trailing blanks), no token is
\* the literal -9999, and the last token is not blank.
C11_FillIsBlank ==
    pc = "written" =>
        \A k \in 1..Len(WrittenRows) :
            LET toks == rowStr(WrittenRows[k], first.colNames, first.meta, acd)
            IN  /\ disk[LinesBeforeRows + k] = Join(toks, CommaSpace)
                /\ \A i \in 1..Len(first.colNames) :
                       CellValue(first.colNames[i], WrittenRows[k][first.colNames[i]])
                           = FillValue(first.colNames[i])
                       => (i > Len(toks) \/ toks[i] = Blank)
                /\ \A i \in 1..Len(toks) : toks[i] # <<I(Sentinel)>>
                /\ Len(toks) > 0 => toks[Len(toks)] # Blank

\* C13: the built-in default of SpectralIndex is [0.0] in every state, and
\* a read, after whatever reads came before it, returns the table, the
\* fill value and the meta that the first read of the process returns for
\* the file.
C13_ReadDeterministic ==
    /\ acd = <<0>>
    /\ pc = "read" =>
           LET firstRead == skyModelReader(FileLines(input), <<0>>)
           IN  /\ firstRead.ok
               /\ table.rows = firstRead.table.rows
               /\ table.fill = firstRead.table.fill
               /\ table.meta = firstRead.table.meta

(***************************************************************************)
(* Properties of the angle codec, checked under SpecAngle.                 *)
(***************************************************************************)
\* C12: when Dec2Angle returns for a string and for the same string with
\* the opposite leading sign, the two angles are the negation of each other.
C12_SignPreserved ==
    (apc = "returned" /\ Len(Dec) = 2 /\ Dec[2] # Dec[1]
        /\ Tail(Dec[2]) = Tail(Dec[1])) =>
        DecAngle[2] = 0 - DecAngle[1]

(***************************************************************************)
(* Properties of concatenate, checked under SpecMerge.                     *)
(***************************************************************************)
\* the rows the call stacks: those of catalog 1, then those of catalog 2
Stacked == cat1.table.rows \o cat2.table.rows
StackedNames == Column(Stacked, "Name")
Merged == LSM1.table.rows
\* the row of the stack a merged row was loaded as
StackIndex(row) ==
    IF row.src.cat = 1 THEN row.src.row ELSE Len(cat1.table.rows) + row.src.row
InMerged(i) == \E k \in 1..Len(Merged) : StackIndex(Merged[k]) = i
FromCatalog2(i) == i > Len(cat1.table.rows)

\* C3: with matchBy = 'name' and keep = 'from1', the merged table holds, in
\* the order of the stack, exactly the rows whose name no earlier row of the
\* stack carries, each under its name.
C3_NameFrom1 ==
    (mpc = "returned" /\ args.matchBy = "name" /\ args.keep = "from1") =>
        LET firsts == SelectSeq([i \in 1..Len(Stacked) |-> i],
                                LAMBDA i : \A j \in 1..(i - 1) :
                                               StackedNames[j] # StackedNames[i])
        IN  /\ Len(Merged) = Len(firsts)
            /\ \A k \in 1..Len(firsts) :
                   /\ StackIndex(Merged[k]) = firsts[k]
                   /\ Merged[k].Name = StackedNames[firsts[k]]

\* a merge by name with keep = 'from1' has dropped a row of catalog 2 whose
\* name catalog 1 holds, and kept a row of catalog 2
C3_Witness ==
    /\ mpc = "returned" /\ args.matchBy = "name" /\ args.keep = "from1"
    /\ \E i \in 1..Len(Stacked) :
           FromCatalog2(i) /\ ~InMerged(i) /\ \E j \in 1..(i - 1) :
               ~FromCatalog2(j) /\ StackedNames[j] = StackedNames[i]
    /\ \E i \in 1..Len(Stacked) : FromCatalog2(i) /\ InMerged(i)

\* the duplicate key of row i of the stack: its name, or its match id
DupKey(i) == IF args.matchBy = "name" THEN StackedNames[i] ELSE match[i]

\* C4: with keep = 'from2', of every group of rows with the same duplicate
\* key that holds a row of catalog 2 and another row, the merged table
\* holds every row of catalog 2 and no row of catalog 1.
C4_From2KeepsCatalog2 ==
    (mpc = "returned" /\ args.keep = "from2") =>
        \A i, j \in 1..Len(Stacked) :
            (i # j /\ DupKey(i) = DupKey(j) /\ FromCatalog2(j)) =>
                /\ InMerged(j)
                /\ ~FromCatalog2(i) => ~InMerged(i)

\* C5: with keep = 'all', for every name X that a row of catalog 1 and a
\* row of catalog 2 carry, the first row of the stack named X is named X_1
\* in the merged table, the second X_2, and at most one row is named X.
C5_RenamePass ==
    (mpc = "returned" /\ args.keep = "all") =>
        \A x \in Range(Column(cat1.table.rows, "Name")) \cap
                 Range(Column(cat2.table.rows, "Name")) :
            /\ Merged[Where(StackedNames, x)[1]].Name = x \o <<"_", "1">>
            /\ Merged[Where(StackedNames, x)[2]].Name = x \o <<"_", "2">>
            /\ Len(Where(Column(Merged, "Name"), x)) <= 1

\* C6: with matchBy = 'position', a row of catalog 2 has the match id of a
\* row of catalog 1 exactly when a row of catalog 1 lies within the radius
\* of it, and the id is then that of a nearest row of catalog 1; the id of
\* every other row of catalog 2 and of every row of catalog 1 that no row
\* of catalog 2 was matched to is the id of no other row.
C6_PositionMatch ==
    (mpc = "returned" /\ args.matchBy = "position") =>
        LET n1 == Len(cat1.table.rows)
            rows1 == cat1.table.rows
            rows2 == cat2.table.rows
            within(j) == {i \in 1..n1 : Sep(rows1[i], rows2[j]) <= args.radius}
            nearest(j) == {i \in 1..n1 : \A k \in 1..n1 :
                              Sep(rows1[i], rows2[j]) <= Sep(rows1[k], rows2[j])}
        IN  /\ \A j \in 1..Len(rows2) :
                   IF within(j) # {}
                   THEN \E i \in nearest(j) : match[n1 + j] = match[i]
                   ELSE \A k \in 1..Len(match) : k # n1 + j => match[k] # match[n1 + j]
            /\ \A i \in 1..n1 :
                   (\A j \in 1..Len(rows2) : i \notin within(j)) =>
                       \A k \in 1..Len(match) : k # i => match[k] # match[i]

\* C14: there are two catalogs and a radius for which two distinct rows of
\* catalog 2 lie within the radius of one row of catalog 1 and both have
\* that row's match id after a call with matchBy = 'position'.
C14_TwoRowsShareAMatch ==
    \E c \in MergeInputs, radius \in Radii :
        LET rows1 == c[1].table.rows
            rows2 == c[2].table.rows
            n1 == Len(rows1)
        IN  \E idx \in Nearest(rows1, rows2) :
                LET m == concatenate(c[1], c[2], "position", radius, "all", idx).match
                IN  \E i \in 1..n1 : \E j, k \in 1..Len(rows2) :
                        /\ j # k
                        /\ Sep(rows1[i], rows2[j]) <= radius
                        /\ Sep(rows1[i], rows2[k]) <= radius
                        /\ m[n1 + j] = m[i]
                        /\ m[n1 + k] = m[i]

\* C15: when a call returns for catalogs in each of which no two rows have
\* the same name, no two rows of the merged table have the same name.
C15_NamesDistinct ==
    (/\ mpc = "returned"
     /\ \A i, j \in 1..Len(cat1.table.rows) :
            i # j => cat1.table.rows[i].Name # cat1.table.rows[j].Name
     /\ \A i, j \in 1..Len(cat2.table.rows) :
            i # j => cat2.table.rows[i].Name # cat2.table.rows[j].Name) =>
        \A i, j \in 1..Len(Merged) : i # j => Merged[i].Name # Merged[j].Name

\* C16: when a call returns, the second sky model the caller holds has the
\* rows, the Patch values and the has-patches flag it had before the call.
C16_Catalog2Unchanged ==
    mpc = "returned" =>
        /\ LSM2.table.rows = cat2.table.rows
        /\ LSM2.table.colNames = cat2.table.colNames
        /\ LSM2.hasPatches = cat2.hasPatches

\* C7: every row of the merged table holds the SpectralIndex of the row of
\* catalog 2 that carries the name it was loaded under, if catalog 2 holds
\* the name, and otherwise that of the row of catalog 1 that carries it.
C7_SpectralIndexByName ==
    mpc = "returned" =>
        \A k \in 1..Len(Merged) :
            LET name == StackedNames[StackIndex(Merged[k])]
                rows == IF \E j \in 1..Len(cat2.table.rows) :
                               cat2.table.rows[j].Name = name
                        THEN cat2.table.rows ELSE cat1.table.rows
            IN  \E j \in 1..Len(rows) :
                    rows[j].Name = name /\
                    Merged[k].SpectralIndex = rows[j].SpectralIndex

\* C8: the call returns for every pair of catalogs, every matchBy, keep and
\* radius, and with a negative radius no two rows have the same match id.
C8_NeverFails ==
    /\ mpc # "raised"
    /\ (mpc = "returned" /\ args.matchBy = "position" /\ args.radius < 0) =>
           \A i, j \in 1..Len(match) : i # j => match[i] # match[j]

====
